---- MODULE Spec2Model ----
(***************************************************************************)
(* Model of tool/confession_checker/checker.py: the identifier registry    *)
(* (class DataBase), the extractors (process_someip_data,                  *)
(* process_diag_data), the classifier (validate_directory_content), the    *)
(* per-file pipeline (load_and_parse_file) and the driver loop of          *)
(* __main__.                                                               *)
(*                                                                         *)
(* Python values are modelled as follows.                                  *)
(*   - A dict that the code iterates (entity.jobs, entity.methods, the     *)
(*     maps of a parsed JSON document) is a sequence of <<key, value>>     *)
(*     pairs with pairwise distinct keys, in insertion order.              *)
(*   - A dict that the code only probes and indexes (someip_db, the two    *)
(*     global id maps) is a function from its keys to its values.          *)
(*   - A raised ValueError is a record of the parts of its message; a call *)
(*     returns a record with the fields raised and error beside its value. *)
(*   - A name (of a service, job, dtc, method, event or file) is a record  *)
(*     [file, key]: the code stores and prints names and never compares    *)
(*     them, so every entry gets a name of its own, telling which entity   *)
(*     an entry of a global map or a part of a message came from.          *)
(***************************************************************************)
EXTENDS Integers, Sequences, FiniteSets, TLC

VARIABLES
    db,          \* the DataBase instance
    result,      \* the last call: its operation, argument and outcome
    calls,       \* number of calls made on db
    has_error,   \* a call has raised (has_error of __main__)
    pair,        \* SpecPair: the two entities admitted in either order
    corpus,      \* SpecCorpus: the files of the corpus
    todo,        \* the indices of pair or corpus not yet processed
    data,        \* SpecExtract: the parsed document handed to an extractor
    extracted,   \* SpecExtract: what the extractor returned
    log,         \* the lines __main__ logs for the files it processes
    exit_code    \* the argument of sys.exit, None while __main__ runs

vars ==
    <<db, result, calls, has_error, pair, corpus, todo, data, extracted,
      log, exit_code>>

(***************************************************************************)
(* Bounds of the model.                                                    *)
(***************************************************************************)
\* an entity or a document section declares at most MaxItems ids in all
MaxItems == 2
\* number of admission calls made on one DataBase in Spec
MaxCalls == 3
\* a corpus has at most MaxDocs files
MaxDocs == 2
\* a document handed to an extractor has at most MaxBlocks interface blocks
MaxBlocks == 2
\* and at most MaxEntries methods and events in all
MaxEntries == 2

\* the ids documents declare: the code only tests ids for equality
Ids == {0, 1}

\* a name of the file-th entity's (or document's) key-th entry
Name(file, key) == [file |-> file, key |-> key]
NoName == Name(0, 0)

(***************************************************************************)
(* Dict helpers.                                                           *)
(***************************************************************************)
\* d[k] = v on a probed dict
Put(d, k, v) == [x \in (DOMAIN d) \cup {k} |-> IF x = k THEN v ELSE d[x]]

\* the keys of an iterated dict
Keys(items) == {items[i][1] : i \in DOMAIN items}

\* items[k] on an iterated dict
Lookup(items, k) == items[CHOOSE i \in DOMAIN items : items[i][1] = k][2]

\* the sequences of at most n pairwise distinct ids
IdSeqs(n) ==
    {s \in UNION {[1..k -> Ids] : k \in 0..n} :
        \A i, j \in DOMAIN s : s[i] = s[j] => i = j}

\* the iterated dict that maps the ids of s, in order, to names of file
Named(s, file) == [k \in DOMAIN s |-> <<s[k], Name(file, k)>>]

(***************************************************************************)
(* Entities.                                                               *)
(***************************************************************************)
\* SomeIpEntity(service_name, service_id): methods and events start empty
SomeIpEntity(service_name, service_id) ==
    [service_name |-> service_name, service_id |-> service_id,
     methods |-> <<>>, events |-> <<>>]

\* DiagEntity(name): jobs and dtcs start empty
DiagEntity(name) == [name |-> name, jobs |-> <<>>, dtcs |-> <<>>]

\* the interface entities a caller may hand to the registry as its n-th
SomeIpEntities(n) == {SomeIpEntity(Name(n, 0), s) : s \in Ids}

\* the job ids and dtc ids of the diagnostic entities of the model
DiagShapes ==
    {p \in IdSeqs(MaxItems) \X IdSeqs(MaxItems) :
        Len(p[1]) + Len(p[2]) <= MaxItems}

\* the diagnostic entities a caller may hand to the registry as its n-th
DiagEntities(n) ==
    {[DiagEntity(Name(n, 0)) EXCEPT !.jobs = Named(p[1], n),
                                    !.dtcs = Named(p[2], n)] :
        p \in DiagShapes}

(***************************************************************************)
(* Errors.                                                                 *)
(***************************************************************************)
NoError == [kind |-> "None", id |-> 0, name |-> NoName, prev |-> NoName]

\* ValueError(error_msg): the message's parts
ValueError(kind, id, name, prev) ==
    [kind |-> kind, id |-> id, name |-> name, prev |-> prev]

(***************************************************************************)
(* class DataBase.                                                         *)
(***************************************************************************)
\* DataBase(): four empty collections
DataBase ==
    [someip_db |-> <<>>, diag_entities |-> <<>>,
     global_diag_job_ids |-> <<>>, global_diag_dtc_ids |-> <<>>]

\* Mutant: the membership test is dropped and the entry overwritten.
add_someip_entity_overwrite(d, entity) ==
    [db |-> [d EXCEPT !.someip_db = Put(@, entity.service_id, entity)],
     raised |-> FALSE, error |-> NoError]

\* Mutant: the entity is stored before the membership test.
add_someip_entity_store_first(d, entity) ==
    [db |-> [d EXCEPT !.someip_db = Put(@, entity.service_id, entity)],
     raised |-> entity.service_id \in DOMAIN d.someip_db,
     error |-> IF entity.service_id \in DOMAIN d.someip_db
               THEN ValueError("DuplicateServiceId", entity.service_id,
                               entity.service_name,
                               d.someip_db[entity.service_id].service_name)
               ELSE NoError]

\* DataBase.add_someip_entity
add_someip_entity(d, entity) ==
    IF entity.service_id \in DOMAIN d.someip_db
    THEN [db |-> d, raised |-> TRUE,
          error |-> ValueError("DuplicateServiceId", entity.service_id,
                               entity.service_name,
                               d.someip_db[entity.service_id].service_name)]
    ELSE [db |-> [d EXCEPT !.someip_db = Put(@, entity.service_id, entity)],
          raised |-> FALSE, error |-> NoError]

\* Mutant: the loop never tests membership, a later entry overwrites.
RECURSIVE MergeIdsUnchecked(_, _, _)
MergeIdsUnchecked(global, items, kind) ==
    IF items = <<>>
    THEN [map |-> global, raised |-> FALSE, error |-> NoError]
    ELSE MergeIdsUnchecked(Put(global, Head(items)[1], Head(items)[2]),
                           Tail(items), kind)

\* Mutant: only the first id of the entity is tested against the global map.
MergeIdsHeadOnly(global, items, kind) ==
    IF items # <<>> /\ Head(items)[1] \in DOMAIN global
    THEN [map |-> global, raised |-> TRUE,
          error |-> ValueError(kind, Head(items)[1], Head(items)[2],
                               global[Head(items)[1]])]
    ELSE MergeIdsUnchecked(global, items, kind)

\* One of the two loops of add_diag_entity: each id is tested against the
\* global map and written into it before the next id is looked at, so an
\* exception leaves the ids before the conflicting one in the map.
RECURSIVE MergeIds(_, _, _)
MergeIds(global, items, kind) ==
    IF items = <<>>
    THEN [map |-> global, raised |-> FALSE, error |-> NoError]
    ELSE LET id == Head(items)[1]
             name == Head(items)[2]
         IN  IF id \in DOMAIN global
             THEN [map |-> global, raised |-> TRUE,
                   error |-> ValueError(kind, id, name, global[id])]
             ELSE MergeIds(Put(global, id, name), Tail(items), kind)

\* Mutant: the dtc loop is skipped.
add_diag_entity_no_dtcs(d, entity) ==
    LET j == MergeIds(d.global_diag_job_ids, entity.jobs, "DuplicateJobId")
        d1 == [d EXCEPT !.global_diag_job_ids = j.map]
    IN  IF j.raised
        THEN [db |-> d1, raised |-> TRUE, error |-> j.error]
        ELSE [db |-> [d1 EXCEPT !.diag_entities = Append(@, entity)],
              raised |-> FALSE, error |-> NoError]

\* Mutant: the dtc ids are also tested against the job ids (one id space
\* for the two kinds).
add_diag_entity_one_id_space(d, entity) ==
    LET j == MergeIds(d.global_diag_job_ids, entity.jobs, "DuplicateJobId")
        d1 == [d EXCEPT !.global_diag_job_ids = j.map]
    IN  IF j.raised
        THEN [db |-> d1, raised |-> TRUE, error |-> j.error]
        ELSE LET u == MergeIds(d.global_diag_job_ids, entity.dtcs,
                               "DuplicateDtcId")
                 t == MergeIds(d.global_diag_dtc_ids, entity.dtcs,
                               "DuplicateDtcId")
                 d2 == [d1 EXCEPT !.global_diag_dtc_ids = t.map]
             IN  IF u.raised
                 THEN [db |-> d1, raised |-> TRUE, error |-> u.error]
                 ELSE IF t.raised
                 THEN [db |-> d2, raised |-> TRUE, error |-> t.error]
                 ELSE [db |-> [d2 EXCEPT !.diag_entities = Append(@, entity)],
                       raised |-> FALSE, error |-> NoError]

\* DataBase.add_diag_entity
add_diag_entity(d, entity) ==
    LET j == MergeIds(d.global_diag_job_ids, entity.jobs, "DuplicateJobId")
        d1 == [d EXCEPT !.global_diag_job_ids = j.map]
    IN  IF j.raised
        THEN [db |-> d1, raised |-> TRUE, error |-> j.error]
        ELSE LET t == MergeIds(d.global_diag_dtc_ids, entity.dtcs,
                               "DuplicateDtcId")
                 d2 == [d1 EXCEPT !.global_diag_dtc_ids = t.map]
             IN  IF t.raised
                 THEN [db |-> d2, raised |-> TRUE, error |-> t.error]
                 ELSE [db |-> [d2 EXCEPT !.diag_entities = Append(@, entity)],
                       raised |-> FALSE, error |-> NoError]

(***************************************************************************)
(* Parsed JSON documents.                                                  *)
(*   data          [has_someip, someip, has_diag, diag]: has_x is           *)
(*                 "x" in data, and data.get("x", {}) is x when has_x and   *)
(*                 the empty dict otherwise                                 *)
(*   someip        an iterated dict service_name -> service_data           *)
(*   service_data  [service_id, methods, events]: service_id is None when   *)
(*                 the key is absent; methods and events are iterated       *)
(*                 dicts name -> info.get("id"), None for an entry          *)
(*                 without id                                               *)
(*   diag          [keys, job, dtc]: keys are the keys of the diag content  *)
(*                 (empty for {}); job and dtc are iterated dicts           *)
(*                 name -> id, None for an entry without id                 *)
(***************************************************************************)
\* Python's None where an id is expected: ids are non-negative
None == -1

\* Mutant: an id is recorded without the membership test (a dict write
\* keeps the first position and replaces the name).
RECURSIVE CollectIdsUnchecked(_, _, _, _)
CollectIdsUnchecked(items, seen, kind, owner) ==
    IF items = <<>>
    THEN [map |-> seen, raised |-> FALSE, error |-> NoError]
    ELSE LET name == Head(items)[1]
             id == Head(items)[2]
         IN  IF id # None /\ id \notin Keys(seen)
             THEN CollectIdsUnchecked(Tail(items), Append(seen, <<id, name>>),
                                      kind, owner)
             ELSE CollectIdsUnchecked(Tail(items), seen, kind, owner)

\* Mutant: the test 'is not None' is dropped, None is an id like another.
RECURSIVE CollectIdsWithNone(_, _, _, _)
CollectIdsWithNone(items, seen, kind, owner) ==
    IF items = <<>>
    THEN [map |-> seen, raised |-> FALSE, error |-> NoError]
    ELSE LET name == Head(items)[1]
             id == Head(items)[2]
         IN  IF id \in Keys(seen)
             THEN [map |-> seen, raised |-> TRUE,
                   error |-> ValueError(kind, id, owner, NoName)]
             ELSE CollectIdsWithNone(Tail(items), Append(seen, <<id, name>>),
                                     kind, owner)

\* The loop the extractors run over the methods, events, jobs and dtcs of
\* one entity: an entry without id is skipped, an id already recorded in
\* this entity raises, any other id is recorded with the entry's name.
RECURSIVE CollectIds(_, _, _, _)
CollectIds(items, seen, kind, owner) ==
    IF items = <<>>
    THEN [map |-> seen, raised |-> FALSE, error |-> NoError]
    ELSE LET name == Head(items)[1]
             id == Head(items)[2]
         IN  IF id # None
             THEN IF id \in Keys(seen)
                  THEN [map |-> seen, raised |-> TRUE,
                        error |-> ValueError(kind, id, owner, NoName)]
                  ELSE CollectIds(Tail(items), Append(seen, <<id, name>>),
                                  kind, owner)
             ELSE CollectIds(Tail(items), seen, kind, owner)

\* Mutant: a block with a duplicate id is skipped, the loop goes on.
RECURSIVE ProcessBlocks_skip_bad(_, _)
ProcessBlocks_skip_bad(someip_content, entities) ==
    IF someip_content = <<>>
    THEN [entities |-> entities, raised |-> FALSE, error |-> NoError]
    ELSE LET service_name == Head(someip_content)[1]
             service_data == Head(someip_content)[2]
             m == CollectIds(service_data.methods, <<>>,
                             "DuplicateMethodId", service_name)
             e == CollectIds(service_data.events, <<>>,
                             "DuplicateEventId", service_name)
             entity == [SomeIpEntity(service_name, service_data.service_id)
                           EXCEPT !.methods = m.map, !.events = e.map]
         IN  IF service_data.service_id = None \/ m.raised \/ e.raised
             THEN ProcessBlocks_skip_bad(Tail(someip_content), entities)
             ELSE ProcessBlocks_skip_bad(Tail(someip_content),
                                         Append(entities, entity))

\* the loop of process_someip_data over the interface blocks
RECURSIVE ProcessBlocks(_, _)
ProcessBlocks(someip_content, entities) ==
    IF someip_content = <<>>
    THEN [entities |-> entities, raised |-> FALSE, error |-> NoError]
    ELSE LET service_name == Head(someip_content)[1]
             service_data == Head(someip_content)[2]
         IN  IF service_data.service_id = None
             THEN ProcessBlocks(Tail(someip_content), entities)
             ELSE LET m == CollectIds(service_data.methods, <<>>,
                                      "DuplicateMethodId", service_name)
                      e == CollectIds(service_data.events, <<>>,
                                      "DuplicateEventId", service_name)
                      entity == [SomeIpEntity(service_name,
                                              service_data.service_id)
                                    EXCEPT !.methods = m.map,
                                           !.events = e.map]
                  IN  IF m.raised
                      THEN [entities |-> <<>>, raised |-> TRUE,
                            error |-> m.error]
                      ELSE IF e.raised
                      THEN [entities |-> <<>>, raised |-> TRUE,
                            error |-> e.error]
                      ELSE ProcessBlocks(Tail(someip_content),
                                         Append(entities, entity))

\* process_someip_data(data): the entities of the document, or a raise
process_someip_data(d) ==
    ProcessBlocks(IF d.has_someip THEN d.someip ELSE <<>>, <<>>)

\* Mutant: the test of line 100 is dropped, an entity is always built.
process_diag_data_always_entity(d, filename) ==
    LET keys == IF d.has_diag THEN d.diag.keys ELSE {}
        jobs == IF "job" \in keys THEN d.diag.job ELSE <<>>
        dtcs == IF "dtc" \in keys THEN d.diag.dtc ELSE <<>>
        j == CollectIds(jobs, <<>>, "DuplicateJobId", filename)
        t == CollectIds(dtcs, <<>>, "DuplicateDtcId", filename)
    IN  IF j.raised
        THEN [entity |-> DiagEntity(filename), is_none |-> TRUE,
              raised |-> TRUE, error |-> j.error]
        ELSE IF t.raised
        THEN [entity |-> DiagEntity(filename), is_none |-> TRUE,
              raised |-> TRUE, error |-> t.error]
        ELSE [entity |-> [DiagEntity(filename) EXCEPT !.jobs = j.map,
                                                      !.dtcs = t.map],
              is_none |-> FALSE, raised |-> FALSE, error |-> NoError]

\* Mutant: the dtc ids are recorded in the dict of the job ids.
process_diag_data_one_dict(d, filename) ==
    LET keys == IF d.has_diag THEN d.diag.keys ELSE {}
        jobs == IF "job" \in keys THEN d.diag.job ELSE <<>>
        dtcs == IF "dtc" \in keys THEN d.diag.dtc ELSE <<>>
        j == CollectIds(jobs, <<>>, "DuplicateJobId", filename)
        t == CollectIds(dtcs, j.map, "DuplicateDtcId", filename)
    IN  IF keys = {}
        THEN [entity |-> DiagEntity(filename), is_none |-> TRUE,
              raised |-> FALSE, error |-> NoError]
        ELSE IF j.raised
        THEN [entity |-> DiagEntity(filename), is_none |-> TRUE,
              raised |-> TRUE, error |-> j.error]
        ELSE IF t.raised
        THEN [entity |-> DiagEntity(filename), is_none |-> TRUE,
              raised |-> TRUE, error |-> t.error]
        ELSE [entity |-> [DiagEntity(filename) EXCEPT !.jobs = j.map,
                                                      !.dtcs = t.map],
              is_none |-> FALSE, raised |-> FALSE, error |-> NoError]

\* process_diag_data(data, filename): the document's entity, is_none when
\* it returns None, or a raise
process_diag_data(d, filename) ==
    LET keys == IF d.has_diag THEN d.diag.keys ELSE {}
        jobs == IF "job" \in keys THEN d.diag.job ELSE <<>>
        dtcs == IF "dtc" \in keys THEN d.diag.dtc ELSE <<>>
        j == CollectIds(jobs, <<>>, "DuplicateJobId", filename)
        t == CollectIds(dtcs, <<>>, "DuplicateDtcId", filename)
    IN  IF keys = {}
        THEN [entity |-> DiagEntity(filename), is_none |-> TRUE,
              raised |-> FALSE, error |-> NoError]
        ELSE IF j.raised
        THEN [entity |-> DiagEntity(filename), is_none |-> TRUE,
              raised |-> TRUE, error |-> j.error]
        ELSE IF t.raised
        THEN [entity |-> DiagEntity(filename), is_none |-> TRUE,
              raised |-> TRUE, error |-> t.error]
        ELSE [entity |-> [DiagEntity(filename) EXCEPT !.jobs = j.map,
                                                      !.dtcs = t.map],
              is_none |-> FALSE, raised |-> FALSE, error |-> NoError]

(***************************************************************************)
(* Specification Spec: one DataBase, admission calls made on it directly   *)
(* (as the unit tests do), in any order and with any entity. The n-th call *)
(* is handed an entity whose names are those of file n.                    *)
(***************************************************************************)
NoCall == [op |-> "none", arg |-> <<>>, raised |-> FALSE, error |-> NoError]

\* the outcome r of a call of op with argument arg
Outcome(op, arg, r) ==
    [op |-> op, arg |-> arg, raised |-> r.raised, error |-> r.error]

Init ==
    /\ db = DataBase
    /\ result = NoCall
    /\ calls = 0
    /\ has_error = FALSE
    /\ pair = <<>>
    /\ corpus = <<>>
    /\ todo = {}
    /\ data = <<>>
    /\ extracted = <<>>
    /\ log = <<>>
    /\ exit_code = None

\* db.add_someip_entity(entity), the caller catching the ValueError
AddSomeIpEntity(entity) ==
    /\ calls < MaxCalls
    /\ LET r == add_someip_entity(db, entity)
       IN  /\ db' = r.db
           /\ result' = Outcome("add_someip_entity", entity, r)
           /\ has_error' = (has_error \/ r.raised)
    /\ calls' = calls + 1
    /\ UNCHANGED <<pair, corpus, todo, data, extracted, log, exit_code>>

\* db.add_diag_entity(entity), the caller catching the ValueError
AddDiagEntity(entity) ==
    /\ calls < MaxCalls
    /\ LET r == add_diag_entity(db, entity)
       IN  /\ db' = r.db
           /\ result' = Outcome("add_diag_entity", entity, r)
           /\ has_error' = (has_error \/ r.raised)
    /\ calls' = calls + 1
    /\ UNCHANGED <<pair, corpus, todo, data, extracted, log, exit_code>>

Next ==
    \/ \E entity \in SomeIpEntities(calls + 1) : AddSomeIpEntity(entity)
    \/ \E entity \in DiagEntities(calls + 1) : AddDiagEntity(entity)

Spec == Init /\ [][Next]_vars

(***************************************************************************)
(* Specification SpecExtract: process_someip_data or process_diag_data     *)
(* applied to a parsed document, drawn from the documents of at most       *)
(* MaxBlocks interface blocks with at most MaxEntries methods and events   *)
(* in all, and from those of at most MaxEntries jobs and dtcs in all. Each *)
(* entry has an id of Ids or none, each block a service_id of Ids or none. *)
(***************************************************************************)
\* an id or None
OptIds == Ids \cup {None}

\* the sequences of at most n optional ids
OptIdSeqs(n) == UNION {[1..k -> OptIds] : k \in 0..n}

\* the iterated dict name -> id of the entries with the optional ids s
Entries(s, file) == [k \in DOMAIN s |-> <<Name(file, k), s[k]>>]

\* the service_data of the model: at most MaxEntries methods and events
ServiceData ==
    {[service_id |-> sid, methods |-> p[1], events |-> p[2]] :
        sid \in OptIds,
        p \in {q \in OptIdSeqs(MaxEntries) \X OptIdSeqs(MaxEntries) :
                 Len(q[1]) + Len(q[2]) <= MaxEntries}}

\* the number of methods and events of the sequence sds of service_data
RECURSIVE EntryCount(_)
EntryCount(sds) ==
    IF sds = <<>> THEN 0
    ELSE Len(Head(sds).methods) + Len(Head(sds).events)
            + EntryCount(Tail(sds))

\* S and the sequences of S extended by up to b service_data, keeping
\* at most MaxEntries methods and events in all
RECURSIVE Extended(_, _)
Extended(S, b) ==
    IF b = 0 THEN S
    ELSE Extended(S \cup {Append(q[1], q[2]) :
                            q \in {r \in S \X ServiceData :
                                     EntryCount(r[1]) + Len(r[2].methods)
                                       + Len(r[2].events) <= MaxEntries}},
                  b - 1)

\* the sequences of at most MaxBlocks service_data of the model
ServiceDataSeqs == Extended({<<>>}, MaxBlocks)

\* the value of data["someip"] in file: the blocks sds under their names
SomeIpContent(sds, file) ==
    [b \in DOMAIN sds |->
        <<Name(file, b),
          [service_id |-> sds[b].service_id,
           methods |-> Entries(sds[b].methods, file),
           events |-> Entries(sds[b].events, file)]>>]

\* the diag content {}
EmptyDiag == [keys |-> {}, job |-> <<>>, dtc |-> <<>>]

\* a document with the interface content someip and no diag key
SomeIpDocument(someip) ==
    [has_someip |-> TRUE, someip |-> someip,
     has_diag |-> FALSE, diag |-> EmptyDiag]

\* a document with neither key
OtherDocument ==
    [has_someip |-> FALSE, someip |-> <<>>,
     has_diag |-> FALSE, diag |-> EmptyDiag]

\* the diag contents of the model: {} or any of the keys job and dtc or
\* another key, with at most MaxEntries jobs and dtcs in all
DiagContents ==
    {c \in [keys : (SUBSET {"job", "dtc"}) \cup {{"other"}},
            job : OptIdSeqs(MaxEntries), dtc : OptIdSeqs(MaxEntries)] :
        /\ Len(c.job) + Len(c.dtc) <= MaxEntries
        /\ "job" \notin c.keys => c.job = <<>>
        /\ "dtc" \notin c.keys => c.dtc = <<>>}

\* a document with the diag content c and no someip key
DiagDocument(c, file) ==
    [has_someip |-> FALSE, someip |-> <<>>, has_diag |-> TRUE,
     diag |-> [keys |-> c.keys, job |-> Entries(c.job, file),
               dtc |-> Entries(c.dtc, file)]]

ExtractDocuments ==
    {OtherDocument} \cup
    {SomeIpDocument(SomeIpContent(sds, 1)) :
        sds \in ServiceDataSeqs} \cup
    {DiagDocument(c, 1) : c \in DiagContents}

NotExtracted ==
    [op |-> "none", entities |-> <<>>, raised |-> FALSE, error |-> NoError]

InitExtract ==
    /\ data \in ExtractDocuments
    /\ extracted = NotExtracted
    /\ log = <<>>
    /\ exit_code = None
    /\ db = DataBase
    /\ result = NoCall
    /\ calls = 0
    /\ has_error = FALSE
    /\ pair = <<>>
    /\ corpus = <<>>
    /\ todo = {}

\* entities = process_someip_data(data), the caller catching the ValueError
ExtractSomeIp ==
    /\ extracted.op = "none"
    /\ LET r == process_someip_data(data)
       IN  extracted' = [op |-> "process_someip_data",
                         entities |-> r.entities,
                         raised |-> r.raised, error |-> r.error]
    /\ UNCHANGED <<data, db, result, calls, has_error, pair, corpus, todo,
                   log, exit_code>>

\* entity = process_diag_data(data, filename), the caller catching the
\* ValueError; the value None is the empty sequence of entities
ExtractDiag ==
    /\ extracted.op = "none"
    /\ LET r == process_diag_data(data, Name(1, 0))
       IN  extracted' = [op |-> "process_diag_data",
                         entities |-> IF r.raised \/ r.is_none THEN <<>>
                                      ELSE <<r.entity>>,
                         raised |-> r.raised, error |-> r.error]
    /\ UNCHANGED <<data, db, result, calls, has_error, pair, corpus, todo,
                   log, exit_code>>

NextExtract == ExtractSomeIp \/ ExtractDiag

SpecExtract == InitExtract /\ [][NextExtract]_vars

(***************************************************************************)
(* Specification SpecPair: two entities of one kind, the first with the    *)
(* names of file 1 and the second with those of file 2, admitted into a    *)
(* fresh DataBase one after the other in either order.                     *)
(***************************************************************************)
\* entity is a SomeIpEntity (and a DiagEntity otherwise)
IsSomeIp(entity) == "service_id" \in DOMAIN entity

\* the method of DataBase that admits entity
AdmitOp(entity) ==
    IF IsSomeIp(entity) THEN "add_someip_entity" ELSE "add_diag_entity"

\* d.add_someip_entity(entity) or d.add_diag_entity(entity)
Admit(d, entity) ==
    IF IsSomeIp(entity)
    THEN add_someip_entity(d, entity)
    ELSE add_diag_entity(d, entity)

InitPair ==
    /\ pair \in (SomeIpEntities(1) \X SomeIpEntities(2))
                    \cup (DiagEntities(1) \X DiagEntities(2))
    /\ todo = {1, 2}
    /\ db = DataBase
    /\ result = NoCall
    /\ calls = 0
    /\ has_error = FALSE
    /\ corpus = <<>>
    /\ data = <<>>
    /\ extracted = <<>>
    /\ log = <<>>
    /\ exit_code = None

\* the i-th entity of the pair is admitted, the caller catching the
\* ValueError
AdmitOfPair(i) ==
    /\ i \in todo
    /\ LET r == Admit(db, pair[i])
       IN  /\ db' = r.db
           /\ result' = Outcome(AdmitOp(pair[i]), pair[i], r)
           /\ has_error' = (has_error \/ r.raised)
    /\ calls' = calls + 1
    /\ todo' = todo \ {i}
    /\ UNCHANGED <<pair, corpus, data, extracted, log, exit_code>>

NextPair == \E i \in {1, 2} : AdmitOfPair(i)

SpecPair == InitPair /\ [][NextPair]_vars

(***************************************************************************)
(* Files, the per-file pipeline and the driver.                            *)
(*   file  [filename, path_parts, json_ok, data]: path_parts are the       *)
(*         components of the normalised path that the classifier looks     *)
(*         for, json_ok is whether json.load decodes the file, data what   *)
(*         it returns                                                      *)
(***************************************************************************)
\* the outcome of a step that did not raise and left the registry d
Passed(d) == [db |-> d, raised |-> FALSE, error |-> NoError]

\* the outcome of a step that raised error and left the registry d
Raised(d, error) == [db |-> d, raised |-> TRUE, error |-> error]

\* Mutant: only the someip folder is enforced.
validate_directory_content_someip_only(file) ==
    IF "someip" \in file.path_parts /\ ~file.data.has_someip
    THEN [raised |-> TRUE,
          error |-> ValueError("ContentMismatch:someip", 0, file.filename,
                               NoName)]
    ELSE [raised |-> FALSE, error |-> NoError]

\* validate_directory_content(filename, data)
validate_directory_content(file) ==
    IF "someip" \in file.path_parts /\ ~file.data.has_someip
    THEN [raised |-> TRUE,
          error |-> ValueError("ContentMismatch:someip", 0, file.filename,
                               NoName)]
    ELSE IF "diag" \in file.path_parts /\ ~file.data.has_diag
    THEN [raised |-> TRUE,
          error |-> ValueError("ContentMismatch:diag", 0, file.filename,
                               NoName)]
    ELSE [raised |-> FALSE, error |-> NoError]

\* Mutant: when an entity is refused, those admitted before it in the loop
\* are taken out again.
RECURSIVE AdmitAll_rollback(_, _)
AdmitAll_rollback(d, someip_entities) ==
    IF someip_entities = <<>> THEN Passed(d)
    ELSE LET r == add_someip_entity(d, Head(someip_entities))
             rest == AdmitAll_rollback(r.db, Tail(someip_entities))
         IN  IF r.raised THEN r
             ELSE IF rest.raised THEN Raised(d, rest.error)
             ELSE rest

\* for entity in someip_entities: db.add_someip_entity(entity)
RECURSIVE AdmitAll(_, _)
AdmitAll(d, someip_entities) ==
    IF someip_entities = <<>> THEN Passed(d)
    ELSE LET r == add_someip_entity(d, Head(someip_entities))
         IN  IF r.raised THEN r ELSE AdmitAll(r.db, Tail(someip_entities))

\* the someip section of load_and_parse_file
LoadSomeIp(file, d) ==
    IF file.data.has_someip
    THEN LET x == process_someip_data(file.data)
         IN  IF x.raised THEN Raised(d, x.error) ELSE AdmitAll(d, x.entities)
    ELSE Passed(d)

\* the diag section of load_and_parse_file
LoadDiag(file, d) ==
    IF file.data.has_diag
    THEN LET g == process_diag_data(file.data, file.filename)
         IN  IF g.raised THEN Raised(d, g.error)
             ELSE IF g.is_none THEN Passed(d)
             ELSE add_diag_entity(d, g.entity)
    ELSE Passed(d)

\* load_and_parse_file(filename, db): the registry it leaves, and whether
\* it raised
load_and_parse_file(file, d) ==
    IF ~file.json_ok
    THEN Raised(d, ValueError("MalformedDocument", 0, file.filename, NoName))
    ELSE LET v == validate_directory_content(file)
             s == LoadSomeIp(file, d)
         IN  IF v.raised THEN Raised(d, v.error)
             ELSE IF s.raised THEN s
             ELSE LoadDiag(file, s.db)

\* the lines __main__ logs for json_file: one when it starts on the file,
\* one more when load_and_parse_file raised
Logged(lg, json_file, raised) ==
    lg \o <<[level |-> "INFO", msg |-> "Processing file",
             file |-> json_file]>>
       \o IF raised
          THEN <<[level |-> "ERROR", msg |-> "FAILED to process",
                  file |-> json_file]>>
          ELSE <<>>

\* the loops of __main__ over the files json_files found in the target
\* directories, from the registry d and the flag flag: the registry and
\* has_error when they end
RECURSIVE RunDriver(_, _, _)
RunDriver(json_files, d, flag) ==
    IF json_files = <<>> THEN [db |-> d, has_error |-> flag]
    ELSE LET r == load_and_parse_file(Head(json_files), d)
         IN  RunDriver(Tail(json_files), r.db, flag \/ r.raised)

(***************************************************************************)
(* Specification SpecCorpus: the driver of __main__ on a corpus of at most *)
(* MaxDocs files, processed in the order of the list. Every file lies in   *)
(* one of the two scanned folders and decodes; its document has at most    *)
(* one interface block (without methods and events), one job and one dtc.  *)
(***************************************************************************)
\* the documents of the corpus files: sid is the service id of the block
\* (None: no someip key), job and dtc the ids of the diag content, a
\* sequence of at most one id each (has_diag: whether there is a diag key)
CorpusDocument(sid, has_diag, job, dtc, file) ==
    [has_someip |-> sid # None,
     someip |-> IF sid = None THEN <<>>
                ELSE SomeIpContent(
                        <<[service_id |-> sid, methods |-> <<>>,
                           events |-> <<>>]>>, file),
     has_diag |-> has_diag,
     diag |-> IF has_diag
              THEN [keys |-> {"job", "dtc"},
                    job |-> [k \in DOMAIN job |-> <<Name(file, k), job[k]>>],
                    dtc |-> [k \in DOMAIN dtc |-> <<Name(file, k), dtc[k]>>]]
              ELSE EmptyDiag]

\* what tells one corpus file from another
CorpusShapes ==
    [path_parts : {{"someip"}, {"diag"}}, sid : OptIds, has_diag : {FALSE},
     job : {<<>>}, dtc : {<<>>}]
    \cup
    [path_parts : {{"someip"}, {"diag"}}, sid : OptIds, has_diag : {TRUE},
     job : IdSeqs(1), dtc : IdSeqs(1)]

\* the file of shape sh found as the i-th
CorpusFile(sh, i) ==
    [filename |-> Name(i, 0), path_parts |-> sh.path_parts, json_ok |-> TRUE,
     data |-> CorpusDocument(sh.sid, sh.has_diag, sh.job, sh.dtc, i)]

InitCorpus ==
    /\ \E n \in 0..MaxDocs :
          \E shapes \in [1..n -> CorpusShapes] :
              corpus = [i \in 1..n |-> CorpusFile(shapes[i], i)]
    /\ db = DataBase
    /\ result = NoCall
    /\ calls = 0
    /\ has_error = FALSE
    /\ pair = <<>>
    /\ todo = {}
    /\ data = <<>>
    /\ extracted = <<>>
    /\ log = <<>>
    /\ exit_code = None

\* Mutant: the flag is assigned the outcome of the last file.
ProcessFile_flag_overwritten ==
    /\ calls < Len(corpus)
    /\ LET file == corpus[calls + 1]
           r == load_and_parse_file(file, db)
       IN  /\ db' = r.db
           /\ result' = Outcome("load_and_parse_file", file.filename, r)
           /\ has_error' = r.raised
           /\ log' = Logged(log, file.filename, r.raised)
    /\ calls' = calls + 1
    /\ UNCHANGED <<pair, corpus, todo, data, extracted, exit_code>>

\* one iteration of the loop over json_files: load_and_parse_file under
\* try, has_error set on ValueError
ProcessFile ==
    /\ calls < Len(corpus)
    /\ LET file == corpus[calls + 1]
           r == load_and_parse_file(file, db)
       IN  /\ db' = r.db
           /\ result' = Outcome("load_and_parse_file", file.filename, r)
           /\ has_error' = (has_error \/ r.raised)
           /\ log' = Logged(log, file.filename, r.raised)
    /\ calls' = calls + 1
    /\ UNCHANGED <<pair, corpus, todo, data, extracted, exit_code>>

NextCorpus == ProcessFile

SpecCorpus == InitCorpus /\ [][NextCorpus]_vars

(***************************************************************************)
(* Specification SpecLoad: load_and_parse_file called on one DataBase, as  *)
(* __main__ calls it. The file under test has up to two interface blocks   *)
(* (with or without a duplicate method or event id), any diag content of   *)
(* up to two jobs and one dtc, any of the two folder names in its path or  *)
(* none, and may fail to decode. It is loaded into a fresh registry or     *)
(* into the one a first file of the corpus shapes has left.                *)
(***************************************************************************)
\* the ids of the methods and of the events of a block of the file under
\* test: none, or one id twice among the methods, or among the events
LoadEntryShapes == {<<<<>>, <<>>>>, <<<<0, 0>>, <<>>>>, <<<<>>, <<0, 0>>>>}

\* the interface blocks of the file under test, with or without
\* service_id
LoadBlocks ==
    {[service_id |-> sid, methods |-> p[1], events |-> p[2]] :
        sid \in OptIds, p \in LoadEntryShapes}

\* its someip content: up to two blocks
LoadBlockSeqs ==
    {<<>>} \cup {<<b>> : b \in LoadBlocks}
           \cup {<<b, c>> : b \in LoadBlocks, c \in LoadBlocks}

\* its diag content: {} or the jobs and dtcs with the given ids
LoadDiagShapes ==
    {[keys |-> {}, job |-> <<>>, dtc |-> <<>>]} \cup
    [keys : {{"job", "dtc"}}, job : {<<>>, <<0>>, <<0, 0>>},
     dtc : {<<>>, <<0>>, <<1>>}]

\* what tells one file under test from another; a key that is absent has
\* no content, a file that does not decode has no keys
LoadShapes ==
    {sh \in [path_parts : SUBSET {"someip", "diag"}, json_ok : BOOLEAN,
             has_someip : BOOLEAN, blocks : LoadBlockSeqs,
             has_diag : BOOLEAN, diag : LoadDiagShapes] :
        /\ ~sh.has_someip => sh.blocks = <<>>
        /\ ~sh.has_diag => sh.diag.keys = {}
        /\ ~sh.json_ok => ~sh.has_someip /\ ~sh.has_diag}

\* the file of shape sh found as the i-th
LoadFile(sh, i) ==
    [filename |-> Name(i, 0), path_parts |-> sh.path_parts,
     json_ok |-> sh.json_ok,
     data |-> [has_someip |-> sh.has_someip,
               someip |-> SomeIpContent(sh.blocks, i),
               has_diag |-> sh.has_diag,
               diag |-> [keys |-> sh.diag.keys,
                         job |-> Entries(sh.diag.job, i),
                         dtc |-> Entries(sh.diag.dtc, i)]]]

InitLoad ==
    /\ db = DataBase
    /\ result = NoCall
    /\ calls = 0
    /\ has_error = FALSE
    /\ corpus = <<>>
    /\ todo = {1}
    /\ pair = <<>>
    /\ data = <<>>
    /\ extracted = <<>>
    /\ log = <<>>
    /\ exit_code = None

\* load_and_parse_file(file, db) under the try of __main__
Load(file) ==
    LET r == load_and_parse_file(file, db)
    IN  /\ db' = r.db
        /\ result' = Outcome("load_and_parse_file", file, r)
        /\ has_error' = (has_error \/ r.raised)
        /\ calls' = calls + 1
        /\ corpus' = Append(corpus, file)
        /\ log' = Logged(log, file.filename, r.raised)
        /\ UNCHANGED <<pair, data, extracted, exit_code>>

\* a first file, of the corpus shapes, is loaded into the fresh registry
LoadFirst ==
    /\ corpus = <<>>
    /\ todo = {1}
    /\ \E sh \in CorpusShapes : Load(CorpusFile(sh, 1))
    /\ todo' = todo

\* the file under test is loaded
LoadUnderTest ==
    /\ todo = {1}
    /\ \E sh \in LoadShapes : Load(LoadFile(sh, Len(corpus) + 1))
    /\ todo' = {}

NextLoad == LoadFirst \/ LoadUnderTest

SpecLoad == InitLoad /\ [][NextLoad]_vars

(***************************************************************************)
(* Specification SpecDriver: __main__ from its first line to sys.exit, on  *)
(* a corpus of at most MaxDocs files of a few shapes that pass or fail in  *)
(* each way a file can. The program is sequential, so a step that is       *)
(* enabled is taken: weak fairness of the next-state action.               *)
(***************************************************************************)
\* a file shape with the interface blocks of the service ids sids, each
\* with the method ids methods, and the diag content of the ids job and dtc
DriverShape(parts, ok, someip, sids, methods, has_diag, job, dtc) ==
    [path_parts |-> parts, json_ok |-> ok, has_someip |-> someip,
     blocks |-> [b \in DOMAIN sids |->
                    [service_id |-> sids[b], methods |-> methods,
                     events |-> <<>>]],
     has_diag |-> has_diag,
     diag |-> IF has_diag /\ (job # <<>> \/ dtc # <<>>)
              THEN [keys |-> {"job", "dtc"}, job |-> job, dtc |-> dtc]
              ELSE [keys |-> {}, job |-> <<>>, dtc |-> <<>>]]

\* the shapes of the files of the corpus: interface files of service id 0
\* and of service id 1, one with a duplicate method id, one without
\* blocks; diag files of job id 0, without and with a dtc; a file of the
\* diag folder without diag key; a file that does not decode
DriverShapes ==
    {DriverShape({"someip"}, TRUE, TRUE, <<0>>, <<>>, FALSE, <<>>, <<>>),
     DriverShape({"someip"}, TRUE, TRUE, <<1>>, <<>>, FALSE, <<>>, <<>>),
     DriverShape({"someip"}, TRUE, TRUE, <<1>>, <<0, 0>>, FALSE, <<>>, <<>>),
     DriverShape({"someip"}, TRUE, TRUE, <<>>, <<>>, FALSE, <<>>, <<>>),
     DriverShape({"diag"}, TRUE, FALSE, <<>>, <<>>, TRUE, <<0>>, <<>>),
     DriverShape({"diag"}, TRUE, FALSE, <<>>, <<>>, TRUE, <<0>>, <<1>>),
     DriverShape({"diag"}, TRUE, TRUE, <<0>>, <<>>, FALSE, <<>>, <<>>),
     DriverShape({"someip"}, FALSE, FALSE, <<>>, <<>>, FALSE, <<>>, <<>>)}

InitDriver ==
    /\ \E n \in 0..MaxDocs :
          \E shapes \in [1..n -> DriverShapes] :
              corpus = [i \in 1..n |-> LoadFile(shapes[i], i)]
    /\ db = DataBase
    /\ result = NoCall
    /\ calls = 0
    /\ has_error = FALSE
    /\ pair = <<>>
    /\ todo = {}
    /\ data = <<>>
    /\ extracted = <<>>
    /\ log = <<>>
    /\ exit_code = None

\* the loops are over: sys.exit(1) if has_error, sys.exit(0) otherwise
Exit ==
    /\ calls = Len(corpus)
    /\ exit_code = None
    /\ exit_code' = IF has_error THEN 1 ELSE 0
    /\ UNCHANGED <<db, result, calls, has_error, pair, corpus, todo, data,
                   extracted, log>>

NextDriver == ProcessFile \/ Exit

SpecDriver == InitDriver /\ [][NextDriver]_vars /\ WF_vars(NextDriver)

(***************************************************************************)
(* Properties of the registry, checked under Spec.                         *)
(***************************************************************************)
\* the last call was a failed one of op
Failed(op) == result.op = op /\ result.raised

\* the entities of diag_entities that declare id in their field jobs/dtcs
JobOwners(d, id) ==
    {i \in DOMAIN d.diag_entities : id \in Keys(d.diag_entities[i].jobs)}
DtcOwners(d, id) ==
    {i \in DOMAIN d.diag_entities : id \in Keys(d.diag_entities[i].dtcs)}

\* C1: atomicity of add_diag_entity. A call of add_diag_entity that raises
\* leaves global_diag_job_ids, global_diag_dtc_ids and diag_entities (the
\* whole registry) exactly as they were before the call.
C1_AtomicDiagAdmission ==
    [][(result'.op = "add_diag_entity" /\ result'.raised) => db' = db]_vars

\* C2: in every reachable state, each key of global_diag_job_ids (resp.
\* global_diag_dtc_ids) is declared by exactly one entity of diag_entities.
C2_GlobalIdsHaveOneOwner ==
    /\ \A id \in DOMAIN db.global_diag_job_ids :
          Cardinality(JobOwners(db, id)) = 1
    /\ \A id \in DOMAIN db.global_diag_dtc_ids :
          Cardinality(DtcOwners(db, id)) = 1

\* the two parts of C3: a state predicate and a step predicate
C3_HeldUnderOwnId ==
    \A k \in DOMAIN db.someip_db : db.someip_db[k].service_id = k
C3_DuplicateRejected ==
    (/\ result'.op = "add_someip_entity"
     /\ \E k \in DOMAIN db.someip_db :
           db.someip_db[k].service_id = result'.arg.service_id)
    => result'.raised
\* C3: global interface uniqueness. The registry holds each entity under
\* its own service_id, so two distinct entities it holds differ in
\* service_id; and a call of add_someip_entity whose entity has the
\* service_id of an entity already held raises.
C3_InterfaceUniqueness == []C3_HeldUnderOwnId /\ [][C3_DuplicateRejected]_vars

\* a duplicate service id was rejected
C3_Witness ==
    /\ Failed("add_someip_entity")
    /\ result.error.kind = "DuplicateServiceId"
    /\ result.arg.service_id \in DOMAIN db.someip_db
    /\ db.someip_db[result.arg.service_id] # result.arg

\* C4: a failed add_someip_entity mutates nothing. When the entity's
\* service_id is already a key of someip_db the call raises and the whole
\* registry is unchanged, so the service_id still maps to the entity
\* admitted first.
C4_FailedInterfaceAdmissionUnchanged ==
    [][(/\ result'.op = "add_someip_entity"
        /\ result'.arg.service_id \in DOMAIN db.someip_db)
       => (/\ result'.raised
           /\ db' = db
           /\ db'.someip_db[result'.arg.service_id]
                = db.someip_db[result'.arg.service_id])]_vars

\* the second of two entities of one service_id was rejected and the
\* registry holds the first
C4_Witness ==
    /\ Failed("add_someip_entity")
    /\ db.someip_db[result.arg.service_id].service_name
         = result.error.prev
    /\ result.error.prev # result.arg.service_name

\* the two parts of C5: a state predicate and a step predicate
C5_AdmittedDisjoint ==
    \A i, j \in DOMAIN db.diag_entities :
        i # j =>
            /\ Keys(db.diag_entities[i].jobs)
                 \cap Keys(db.diag_entities[j].jobs) = {}
            /\ Keys(db.diag_entities[i].dtcs)
                 \cap Keys(db.diag_entities[j].dtcs) = {}
C5_SharedIdRejected ==
    (/\ result'.op = "add_diag_entity"
     /\ \E i \in DOMAIN db.diag_entities :
           \/ Keys(db.diag_entities[i].jobs)
                \cap Keys(result'.arg.jobs) # {}
           \/ Keys(db.diag_entities[i].dtcs)
                \cap Keys(result'.arg.dtcs) # {})
    => result'.raised
\* C5: global diagnostic uniqueness. The job ids of two distinct entities
\* of diag_entities are disjoint and so are their dtc ids; and a call of
\* add_diag_entity whose entity shares a job id or a dtc id with an entity
\* of diag_entities raises.
C5_DiagnosticUniqueness == []C5_AdmittedDisjoint /\ [][C5_SharedIdRejected]_vars

\* an entity sharing a dtc id with an admitted one was rejected while two
\* entities are admitted
C5_Witness ==
    /\ Failed("add_diag_entity")
    /\ result.error.kind = "DuplicateDtcId"
    /\ Len(db.diag_entities) = 2
    /\ \E i \in DOMAIN db.diag_entities :
          result.error.id \in Keys(db.diag_entities[i].dtcs)

\* the iterated dict items as a probed dict
AsMap(items) == [id \in Keys(items) |-> Lookup(items, id)]

\* the ids declared by the entities of es in field f, each with its name
RECURSIVE MergedItems(_, _)
MergedItems(es, f) ==
    IF es = <<>> THEN <<>>
    ELSE LET rest == MergedItems(Tail(es), f)
             own == AsMap(Head(es)[f])
         IN  [id \in (DOMAIN own) \cup (DOMAIN rest) |->
                 IF id \in DOMAIN own THEN own[id] ELSE rest[id]]

\* entity shares no service id, job id or dtc id with an entity held by d
NonConflicting(op, entity, d) ==
    IF op = "add_someip_entity"
    THEN \A k \in DOMAIN d.someip_db :
            d.someip_db[k].service_id # entity.service_id
    ELSE \A i \in DOMAIN d.diag_entities :
            /\ Keys(d.diag_entities[i].jobs) \cap Keys(entity.jobs) = {}
            /\ Keys(d.diag_entities[i].dtcs) \cap Keys(entity.dtcs) = {}

\* the two parts of C8: a state predicate and a step predicate
C8_Exact ==
    /\ \A k \in DOMAIN db.someip_db : db.someip_db[k].service_id = k
    /\ Cardinality(DOMAIN db.someip_db) + Len(db.diag_entities) = calls
    /\ db.global_diag_job_ids = MergedItems(db.diag_entities, "jobs")
    /\ db.global_diag_dtc_ids = MergedItems(db.diag_entities, "dtcs")
C8_Admits ==
    (/\ ~has_error
     /\ result'.op \in {"add_someip_entity", "add_diag_entity"}
     /\ NonConflicting(result'.op, result'.arg, db))
    => /\ ~result'.raised
       /\ IF result'.op = "add_someip_entity"
          THEN /\ db'.someip_db
                    = Put(db.someip_db, result'.arg.service_id,
                          result'.arg)
               /\ db'.diag_entities = db.diag_entities
          ELSE /\ db'.someip_db = db.someip_db
               /\ db'.diag_entities
                    = Append(db.diag_entities, result'.arg)
\* C8: non-conflicting input always succeeds. As long as no call has
\* raised, a call whose entity shares no id with the entities admitted
\* before does not raise and adds exactly that entity: an interface entity
\* under its service_id, a diagnostic entity at the end of diag_entities;
\* every call made is admitted, and each global map is exactly the union of
\* the admitted entities' ids, each id mapped to its item name.
C8_NonConflictingSucceeds == [](~has_error => C8_Exact) /\ [][C8_Admits]_vars

\* three entities without shared ids were admitted, two of them diagnostic
\* ones that declare job ids and dtc ids
C8_Witness ==
    /\ ~has_error
    /\ calls >= 3
    /\ DOMAIN db.someip_db # {}
    /\ Len(db.diag_entities) = 2
    /\ Cardinality(DOMAIN db.global_diag_job_ids) = 2
    /\ Cardinality(DOMAIN db.global_diag_dtc_ids) = 2

\* C10: first seen wins. Whenever an admission raises, the name reported
\* as the party the entity conflicts with is that of an entry of an entity
\* the registry holds, admitted by an earlier successful call: the name of
\* the interface entity held under the id, or the name the id has in an
\* entity of diag_entities; never that of an entity whose admission failed.
C10_PriorPartyWasAdmitted ==
    result.raised =>
        LET e == result.error
        IN  CASE e.kind = "DuplicateServiceId" ->
                    \E k \in DOMAIN db.someip_db :
                        /\ db.someip_db[k].service_id = e.id
                        /\ db.someip_db[k].service_name = e.prev
              [] e.kind = "DuplicateJobId" ->
                    \E i \in DOMAIN db.diag_entities :
                        /\ e.id \in Keys(db.diag_entities[i].jobs)
                        /\ Lookup(db.diag_entities[i].jobs, e.id) = e.prev
              [] e.kind = "DuplicateDtcId" ->
                    \E i \in DOMAIN db.diag_entities :
                        /\ e.id \in Keys(db.diag_entities[i].dtcs)
                        /\ Lookup(db.diag_entities[i].dtcs, e.id) = e.prev
              [] OTHER -> TRUE

\* the registry d with its diagnostic fields emptied
WithoutDiag(d) ==
    [d EXCEPT !.diag_entities = <<>>, !.global_diag_job_ids = <<>>,
              !.global_diag_dtc_ids = <<>>]

\* the registry d with its interface entities removed
WithoutSomeIp(d) == [d EXCEPT !.someip_db = <<>>]

\* the two parts of C11: the step of add_someip_entity and the step of
\* add_diag_entity
C11_SomeIpStep ==
    result'.op = "add_someip_entity" =>
        /\ db'.diag_entities = db.diag_entities
        /\ db'.global_diag_job_ids = db.global_diag_job_ids
        /\ db'.global_diag_dtc_ids = db.global_diag_dtc_ids
        /\ result'.raised = (result'.arg.service_id \in DOMAIN db.someip_db)
        /\ LET r == add_someip_entity(WithoutDiag(db), result'.arg)
           IN  /\ r.raised = result'.raised
               /\ r.error = result'.error
               /\ r.db.someip_db = db'.someip_db
C11_DiagStep ==
    result'.op = "add_diag_entity" =>
        /\ db'.someip_db = db.someip_db
        /\ result'.raised =
             \/ Keys(result'.arg.jobs) \cap DOMAIN db.global_diag_job_ids # {}
             \/ Keys(result'.arg.dtcs) \cap DOMAIN db.global_diag_dtc_ids # {}
        /\ LET r == add_diag_entity(WithoutSomeIp(db), result'.arg)
           IN  /\ r.raised = result'.raised
               /\ r.error = result'.error
               /\ WithoutSomeIp(db') = r.db

\* C11: the id spaces are never compared. add_someip_entity leaves the
\* three diagnostic fields as they were, and its outcome is the one it has
\* on the registry without them: it raises exactly when the service_id is
\* a key of someip_db. add_diag_entity leaves someip_db as it was, and its
\* outcome is the one it has on the registry without the interface
\* entities: it raises exactly when a job id of the entity is a key of
\* global_diag_job_ids or a dtc id of it a key of global_diag_dtc_ids. So a
\* number used as a service id or as a dtc id never makes an entity with
\* that number as a job id fail, and likewise for the other spaces.
C11_IdSpacesIndependent == [][C11_SomeIpStep /\ C11_DiagStep]_vars

\* an entity whose only id is a job id that is already a service id and a
\* dtc id of the registry has been admitted
C11_Witness ==
    /\ result.op = "add_diag_entity"
    /\ ~result.raised
    /\ result.arg.dtcs = <<>>
    /\ \E id \in Keys(result.arg.jobs) :
          /\ id \in DOMAIN db.someip_db
          /\ id \in DOMAIN db.global_diag_dtc_ids

\* q starts with the elements of p
IsPrefix(p, q) == Len(p) <= Len(q) /\ SubSeq(q, 1, Len(p)) = p

\* every key of the probed dict m is a key of n with the same value
Keeps(m, n) == \A k \in DOMAIN m : k \in DOMAIN n /\ n[k] = m[k]

\* C12: the registry is strictly additive. Across every step, successful
\* or failed, a key of someip_db stays a key with the same entity,
\* diag_entities only grows at its end, and a key of a global diagnostic
\* map stays a key with the same name.
C12_StrictlyAdditive ==
    [][/\ Keeps(db.someip_db, db'.someip_db)
       /\ IsPrefix(db.diag_entities, db'.diag_entities)
       /\ Keeps(db.global_diag_job_ids, db'.global_diag_job_ids)
       /\ Keeps(db.global_diag_dtc_ids, db'.global_diag_dtc_ids)]_vars

\* a call has failed on a registry that holds entities of both kinds
C12_Witness ==
    /\ result.raised
    /\ calls = 3
    /\ DOMAIN db.someip_db # {}
    /\ db.diag_entities # <<>>
    /\ DOMAIN db.global_diag_job_ids \cup DOMAIN db.global_diag_dtc_ids # {}

(***************************************************************************)
(* Properties of process_someip_data, checked under SpecExtract.           *)
(***************************************************************************)
\* two entries of the iterated dict name -> id have the same present id
DuplicateIdIn(entries) ==
    \E i, j \in DOMAIN entries :
        /\ i # j
        /\ entries[i][2] # None
        /\ entries[i][2] = entries[j][2]

\* the block service_data has two methods or two events with the same
\* present id
HasDuplicate(service_data) ==
    \/ DuplicateIdIn(service_data.methods)
    \/ DuplicateIdIn(service_data.events)

\* the ids recorded in an entity's iterated dict are pairwise distinct
DistinctIds(items) ==
    \A i, j \in DOMAIN items : items[i][1] = items[j][1] => i = j

\* C9: scoped uniqueness in the interface extractor. process_someip_data
\* raises if and only if some interface block that declares a service_id
\* has two methods with the same present id or two events with the same
\* present id (so neither a method id equal to an event id of the block nor
\* equal ids in two different blocks make it raise); and every entity it
\* returns has pairwise distinct method ids and pairwise distinct event ids.
C9_ScopedInterfaceUniqueness ==
    extracted.op = "process_someip_data" =>
        /\ extracted.raised <=>
              /\ data.has_someip
              /\ \E b \in DOMAIN data.someip :
                    /\ data.someip[b][2].service_id # None
                    /\ \/ DuplicateIdIn(data.someip[b][2].methods)
                       \/ DuplicateIdIn(data.someip[b][2].events)
        /\ \A n \in DOMAIN extracted.entities :
              /\ DistinctIds(extracted.entities[n].methods)
              /\ DistinctIds(extracted.entities[n].events)

\* an entity whose method and event share an id was returned
C9_Witness ==
    /\ extracted.op = "process_someip_data"
    /\ ~extracted.raised
    /\ \E n \in DOMAIN extracted.entities :
          Keys(extracted.entities[n].methods)
            \cap Keys(extracted.entities[n].events) # {}

\* C15: scoped uniqueness in the diagnostic extractor. process_diag_data
\* raises if and only if two job entries of the document have the same
\* present sub_service_id or two dtc entries the same present id (a job id
\* equal to a dtc id does not make it raise). It returns at most one
\* entity, named after the file and with pairwise distinct job ids and
\* pairwise distinct dtc ids, and the registry is as it was.
C15_ScopedDiagnosticUniqueness ==
    extracted.op = "process_diag_data" =>
        /\ extracted.raised <=>
              /\ data.has_diag
              /\ \/ DuplicateIdIn(data.diag.job)
                 \/ DuplicateIdIn(data.diag.dtc)
        /\ Len(extracted.entities) <= 1
        /\ \A n \in DOMAIN extracted.entities :
              /\ extracted.entities[n].name = Name(1, 0)
              /\ DistinctIds(extracted.entities[n].jobs)
              /\ DistinctIds(extracted.entities[n].dtcs)
        /\ db = DataBase

\* an entity whose job and dtc share an id was returned
C15_Witness ==
    /\ extracted.op = "process_diag_data"
    /\ ~extracted.raised
    /\ \E n \in DOMAIN extracted.entities :
          Keys(extracted.entities[n].jobs)
            \cap Keys(extracted.entities[n].dtcs) # {}

\* the entry has an id; the block declares a service_id
HasId(entry) == entry[2] # None
Declares(block) == block[2].service_id # None

\* what an extractor records of the entries that have an id: id -> name
Recorded(entries) ==
    [k \in DOMAIN SelectSeq(entries, HasId) |->
        <<SelectSeq(entries, HasId)[k][2], SelectSeq(entries, HasId)[k][1]>>]

\* the document d without its entries that have no id and without its
\* blocks that declare no service_id
WithoutIdless(d) ==
    [d EXCEPT
        !.someip = [b \in DOMAIN SelectSeq(d.someip, Declares) |->
                       LET block == SelectSeq(d.someip, Declares)[b]
                       IN  <<block[1],
                             [block[2] EXCEPT
                                 !.methods = SelectSeq(@, HasId),
                                 !.events = SelectSeq(@, HasId)]>>],
        !.diag = [@ EXCEPT !.job = SelectSeq(@, HasId),
                           !.dtc = SelectSeq(@, HasId)]]

\* the two parts of C18: process_someip_data and process_diag_data
C18_SomeIp ==
    extracted.op = "process_someip_data" =>
        LET r == process_someip_data(WithoutIdless(data))
            declared == SelectSeq(data.someip, Declares)
        IN  /\ r.raised = extracted.raised
            /\ r.error = extracted.error
            /\ r.entities = extracted.entities
            /\ ~extracted.raised =>
                  /\ Len(extracted.entities) = Len(declared)
                  /\ \A n \in DOMAIN declared :
                        LET entity == extracted.entities[n]
                        IN  /\ entity.service_name = declared[n][1]
                            /\ entity.service_id = declared[n][2].service_id
                            /\ entity.methods
                                 = Recorded(declared[n][2].methods)
                            /\ entity.events
                                 = Recorded(declared[n][2].events)
C18_Diag ==
    extracted.op = "process_diag_data" =>
        LET r == process_diag_data(WithoutIdless(data), Name(1, 0))
        IN  /\ r.raised = extracted.raised
            /\ r.error = extracted.error
            /\ \A n \in DOMAIN extracted.entities :
                  /\ ~r.is_none
                  /\ r.entity = extracted.entities[n]
                  /\ extracted.entities[n].jobs = Recorded(data.diag.job)
                  /\ extracted.entities[n].dtcs = Recorded(data.diag.dtc)

\* C18: entries without ids are skipped silently. An interface block
\* without service_id yields no entity and no error, whatever its methods
\* and events; a method, event, job or dtc without id is not recorded and
\* takes no part in a duplicate-id failure: an extractor raises, and
\* returns, on a document what it does on the document without those
\* blocks and entries. When process_someip_data returns, it returns one
\* entity for each block that declares a service_id, in input order, with
\* exactly the entries of the block that have an id.
C18_IdlessSkipped == C18_SomeIp /\ C18_Diag

\* an entity was returned for a document that has a block without
\* service_id and with a duplicate id
C18_Witness ==
    /\ extracted.op = "process_someip_data"
    /\ ~extracted.raised
    /\ Len(extracted.entities) = 1
    /\ \E b \in DOMAIN data.someip :
          /\ ~Declares(data.someip[b])
          /\ HasDuplicate(data.someip[b][2])

(***************************************************************************)
(* Properties of a pair of admissions, checked under SpecPair.             *)
(***************************************************************************)
\* the file whose names entity bears
FileOf(entity) ==
    IF IsSomeIp(entity) THEN entity.service_name.file ELSE entity.name.file

\* first and then second are admitted into a fresh DataBase: whether an
\* admission raised, and the error
AdmitBoth(first, second) ==
    LET r1 == Admit(DataBase, first)
        r2 == Admit(r1.db, second)
    IN  [conflict |-> r1.raised \/ r2.raised,
         error |-> IF r1.raised THEN r1.error ELSE r2.error]

\* C6: order-independence of detection for a pair. Once both entities of
\* the pair are admitted in one order, an admission has raised if and only
\* if one raises when the two are admitted in the other order; in either
\* order the party named as the prior one is an entry of the entity
\* admitted first.
C6_PairOrderIndependence ==
    (pair # <<>> /\ todo = {}) =>
        LET second == result.arg
            first == IF second = pair[1] THEN pair[2] ELSE pair[1]
            other == AdmitBoth(second, first)
        IN  /\ has_error <=> other.conflict
            /\ has_error =>
                  /\ result.raised
                  /\ result.error.prev.file = FileOf(first)
                  /\ other.error.prev.file = FileOf(second)

\* the second admission of two diagnostic entities was rejected for a dtc id
\* that the entity admitted first does not declare first
C6_Witness ==
    /\ pair # <<>>
    /\ todo = {}
    /\ result.raised
    /\ result.error.kind = "DuplicateDtcId"
    /\ Len(result.arg.dtcs) = 2
    /\ result.arg.dtcs[2][1] = result.error.id

(***************************************************************************)
(* Properties of the driver, checked under SpecCorpus.                     *)
(***************************************************************************)
\* the service ids, job ids and dtc ids a document declares
ServiceIdsOf(d) ==
    IF d.has_someip
    THEN {d.someip[b][2].service_id : b \in DOMAIN d.someip} \ {None}
    ELSE {}
JobIdsOf(d) ==
    IF d.has_diag /\ "job" \in d.diag.keys
    THEN {d.diag.job[k][2] : k \in DOMAIN d.diag.job} \ {None}
    ELSE {}
DtcIdsOf(d) ==
    IF d.has_diag /\ "dtc" \in d.diag.keys
    THEN {d.diag.dtc[k][2] : k \in DOMAIN d.diag.dtc} \ {None}
    ELSE {}

\* two files of the corpus share a service id, a job id or a dtc id
SharesId(files) ==
    \E i, j \in DOMAIN files :
        /\ i # j
        /\ \/ ServiceIdsOf(files[i].data) \cap ServiceIdsOf(files[j].data) # {}
           \/ JobIdsOf(files[i].data) \cap JobIdsOf(files[j].data) # {}
           \/ DtcIdsOf(files[i].data) \cap DtcIdsOf(files[j].data) # {}

\* the orders in which the files may be processed
Reorderings(files) ==
    {[i \in DOMAIN files |-> files[p[i]]] :
        p \in {q \in [DOMAIN files -> DOMAIN files] :
                 \A i, j \in DOMAIN files : q[i] = q[j] => i = j}}

\* C7: corpus-level detection does not depend on the processing order.
\* When the driver has processed the whole corpus: if two of its files
\* share a service id, a job id or a dtc id then has_error is set; and
\* has_error is what the driver ends with on the same files in any other
\* order. (The corpora of the specification hold every order of every
\* choice of files, so the first part is checked in every order too.)
C7_CorpusOrderIndependence ==
    (corpus # <<>> /\ calls = Len(corpus)) =>
        /\ SharesId(corpus) => has_error
        /\ \A files \in Reorderings(corpus) :
              RunDriver(files, DataBase, FALSE).has_error = has_error

\* the second of two files was rejected for the job id it shares with the
\* first, which was admitted
C7_Witness ==
    /\ Len(corpus) = 2
    /\ calls = 2
    /\ SharesId(corpus)
    /\ result.raised
    /\ result.error.kind = "DuplicateJobId"
    /\ Len(db.diag_entities) = 1

(***************************************************************************)
(* Properties of load_and_parse_file, checked under SpecLoad.              *)
(***************************************************************************)
\* the kinds of the errors the classifier raises
ContentMismatch == {"ContentMismatch:someip", "ContentMismatch:diag"}

\* the document of file lacks the key of a folder of its path
LacksKeyOfFolder(file) ==
    \/ "someip" \in file.path_parts /\ ~file.data.has_someip
    \/ "diag" \in file.path_parts /\ ~file.data.has_diag

\* C13: the classifier gate. Loading a decoded document whose path has a
\* 'diag' component and which has no 'diag' key (resp. 'someip'), whatever
\* else it contains, raises a content-mismatch error and leaves the
\* registry unchanged; a document whose path has neither component is
\* never rejected by the classifier.
C13_ClassifierGate ==
    [][(result'.op = "load_and_parse_file" /\ result'.arg.json_ok) =>
          /\ LacksKeyOfFolder(result'.arg) =>
                /\ result'.raised
                /\ result'.error.kind \in ContentMismatch
                /\ db' = db
          /\ result'.arg.path_parts = {} =>
                result'.error.kind \notin ContentMismatch]_vars

\* a document in a diag folder without diag key has been rejected though
\* it has an interface block the registry would have admitted
C13_Witness ==
    /\ result.op = "load_and_parse_file"
    /\ result.raised
    /\ result.error.kind = "ContentMismatch:diag"
    /\ result.arg.data.has_someip
    /\ \E b \in DOMAIN result.arg.data.someip :
          result.arg.data.someip[b][2].service_id \notin DOMAIN db.someip_db
    /\ ~process_someip_data(result.arg.data).raised

\* the document d has no interface content and no diagnostic content:
\* each of the two keys is absent or has the value {}
NoContent(d) ==
    /\ ~d.has_someip \/ d.someip = <<>>
    /\ ~d.has_diag \/ d.diag.keys = {}

\* C16: a document without content is a no-op. For a decoded document with
\* no interface and no diagnostic content (a key absent, or present and
\* empty), process_someip_data returns the empty sequence and
\* process_diag_data returns None, neither raises, and loading the
\* document from a path outside the two folders raises nothing and leaves
\* the registry unchanged.
C16_EmptyDocumentIsNoOp ==
    [][(/\ result'.op = "load_and_parse_file"
        /\ result'.arg.json_ok
        /\ NoContent(result'.arg.data)) =>
          LET file == result'.arg
              x == process_someip_data(file.data)
              g == process_diag_data(file.data, file.filename)
          IN  /\ ~x.raised /\ x.entities = <<>>
              /\ ~g.raised /\ g.is_none
              /\ file.path_parts = {} => ~result'.raised /\ db' = db]_vars

\* a document whose diag key is present and empty has been loaded from
\* outside the two folders into a registry that holds entities
C16_Witness ==
    /\ result.op = "load_and_parse_file"
    /\ result.arg.json_ok
    /\ result.arg.path_parts = {}
    /\ result.arg.data.has_diag
    /\ NoContent(result.arg.data)
    /\ ~result.raised
    /\ db.diag_entities # <<>>

\* the step has loaded a decoded document with the someip key
LoadedSomeIp ==
    /\ result'.op = "load_and_parse_file"
    /\ result'.arg.json_ok
    /\ result'.arg.data.has_someip

\* C17 as stated, for any interface block: if a block of the document has
\* a duplicate method id or a duplicate event id, process_someip_data
\* returns no entities and the document leaves someip_db unchanged.
C17_AnyBlock ==
    [][(/\ LoadedSomeIp
        /\ \E b \in DOMAIN result'.arg.data.someip :
              HasDuplicate(result'.arg.data.someip[b][2])) =>
          LET x == process_someip_data(result'.arg.data)
          IN  /\ x.raised
              /\ x.entities = <<>>
              /\ db'.someip_db = db.someip_db]_vars

\* C17: fail-fast extraction is terminal for the document's interface
\* processing. If an interface block of the document that declares a
\* service_id has a duplicate method id or a duplicate event id,
\* process_someip_data raises and returns no entities, so loading the
\* document raises, none of its interface entities is admitted (the valid
\* blocks before the bad one included) and the registry is unchanged.
C17_FailFastExtraction ==
    [][(/\ LoadedSomeIp
        /\ \E b \in DOMAIN result'.arg.data.someip :
              /\ result'.arg.data.someip[b][2].service_id # None
              /\ HasDuplicate(result'.arg.data.someip[b][2])) =>
          LET x == process_someip_data(result'.arg.data)
          IN  /\ x.raised
              /\ x.entities = <<>>
              /\ result'.raised
              /\ db' = db]_vars

\* loading has raised on the duplicate of the second block of a document
\* whose first block is valid and has a service id the registry lacks
C17_Witness ==
    /\ result.op = "load_and_parse_file"
    /\ result.raised
    /\ result.error.kind \in {"DuplicateMethodId", "DuplicateEventId"}
    /\ Len(result.arg.data.someip) = 2
    /\ ~HasDuplicate(result.arg.data.someip[1][2])
    /\ result.arg.data.someip[1][2].service_id \in Ids
    /\ result.arg.data.someip[1][2].service_id \notin DOMAIN db.someip_db
    /\ db # DataBase

\* the service ids of the first n entities of es
ServiceIdsUpTo(es, n) == {es[i].service_id : i \in 1..n}

\* the entities es on which the loop of admissions into d stops: those
\* whose service_id is a key of d.someip_db or that of an earlier one
Refused(d, es) ==
    {k \in DOMAIN es :
        es[k].service_id \in
            DOMAIN d.someip_db \cup ServiceIdsUpTo(es, k - 1)}

\* the minimum of the non-empty set S of numbers
Min(S) == CHOOSE k \in S : \A m \in S : k <= m

\* someip_db holds entity
Holds(someip_db, entity) ==
    /\ entity.service_id \in DOMAIN someip_db
    /\ someip_db[entity.service_id] = entity

\* an id of a global diagnostic map has a name of the file filename
NamedAfter(d, filename) ==
    \E id \in DOMAIN d.global_diag_job_ids \cup DOMAIN d.global_diag_dtc_ids :
        \/ /\ id \in DOMAIN d.global_diag_job_ids
           /\ d.global_diag_job_ids[id].file = filename.file
        \/ /\ id \in DOMAIN d.global_diag_dtc_ids
           /\ d.global_diag_dtc_ids[id].file = filename.file

\* C19: the admission of a document is not all-or-nothing. When the
\* document yields the interface entities e1..en and add_someip_entity
\* raises on ek, someip_db is what it was plus e1..e(k-1), none of ek..en
\* is held, and the diag section is not run: the three diagnostic fields
\* are unchanged and no id in the global maps comes from the document.
\* When all of e1..en are admitted they are held after the call, whether
\* the diag section then raises or not.
C19_PartialDocumentAdmission ==
    [][(/\ LoadedSomeIp
        /\ ~LacksKeyOfFolder(result'.arg)
        /\ ~process_someip_data(result'.arg.data).raised) =>
          LET es == process_someip_data(result'.arg.data).entities
          IN  IF Refused(db, es) # {}
              THEN LET k == Min(Refused(db, es))
                   IN  /\ result'.raised
                       /\ result'.error.kind = "DuplicateServiceId"
                       /\ result'.error.name = es[k].service_name
                       /\ DOMAIN db'.someip_db
                            = DOMAIN db.someip_db
                                \cup ServiceIdsUpTo(es, k - 1)
                       /\ Keeps(db.someip_db, db'.someip_db)
                       /\ \A i \in 1..(k - 1) : Holds(db'.someip_db, es[i])
                       /\ \A i \in k..Len(es) : ~Holds(db'.someip_db, es[i])
                       /\ WithoutSomeIp(db') = WithoutSomeIp(db)
                       /\ ~NamedAfter(db', result'.arg.filename)
              ELSE \A i \in DOMAIN es : Holds(db'.someip_db, es[i])]_vars

\* the second interface entity of a document that also has jobs was
\* refused, the first is held and the jobs were not admitted
C19_Witness ==
    /\ result.op = "load_and_parse_file"
    /\ result.raised
    /\ result.error.kind = "DuplicateServiceId"
    /\ Len(result.arg.data.someip) = 2
    /\ result.error.name = result.arg.data.someip[2][1]
    /\ \E id \in DOMAIN db.someip_db :
          db.someip_db[id].service_name = result.arg.data.someip[1][1]
    /\ result.arg.data.has_diag
    /\ result.arg.data.diag.job # <<>>
    /\ DOMAIN db.global_diag_job_ids = {}

\* the interface entity of a document is held though its diag section
\* raised
C19_WitnessDiagFailed ==
    /\ result.op = "load_and_parse_file"
    /\ result.raised
    /\ result.error.kind \in {"DuplicateJobId", "DuplicateDtcId"}
    /\ \E id \in DOMAIN db.someip_db :
          db.someip_db[id].service_name.file = result.arg.filename.file

(***************************************************************************)
(* Properties of __main__, checked under SpecDriver.                       *)
(***************************************************************************)
\* the files of the lines of lg with the message msg, in order
RECURSIVE FilesLogged(_, _)
FilesLogged(lg, msg) ==
    IF lg = <<>> THEN <<>>
    ELSE (IF Head(lg).msg = msg THEN <<Head(lg).file>> ELSE <<>>)
            \o FilesLogged(Tail(lg), msg)

\* the parts of C14: the driver exits; when it has, it has started on the
\* files of the corpus one after the other, each once, and its exit status
\* is 1 if a file was logged as failed and 0 otherwise; a file is logged as
\* failed exactly when load_and_parse_file raised on it, and this sets the
\* flag; the flag is never cleared
C14_Terminates == <>(exit_code # None)
C14_EveryFileOnce ==
    exit_code # None =>
        FilesLogged(log, "Processing file")
            = [i \in DOMAIN corpus |-> corpus[i].filename]
C14_Verdict ==
    exit_code # None =>
        /\ exit_code \in {0, 1}
        /\ exit_code = 1 <=> FilesLogged(log, "FAILED to process") # <<>>
C14_FailureRecorded ==
    result'.op = "load_and_parse_file" /\ calls' = calls + 1 =>
        /\ result'.arg = corpus[calls'].filename
        /\ FilesLogged(log', "FAILED to process")
             = FilesLogged(log, "FAILED to process")
                 \o IF result'.raised THEN <<result'.arg>> ELSE <<>>
        /\ result'.raised => has_error'
C14_FlagNeverCleared == has_error => has_error'

====
